---- MODULE Spec2Model ----
(***************************************************************************)
(* Model of click's `exec` command (src/command/exec.rs): the handler      *)
(* closure that resolves the tty/stdin flags into kubectl's attach token,  *)
(* do_exec, which builds the kubectl invocation and runs it either inline  *)
(* (std::process::Command::status) or detached in a terminal               *)
(* (duct::cmd(..).start()), and the fan-out over the current selection.    *)
(*                                                                         *)
(* Strings that the code only passes through (names, namespaces, command   *)
(* words) are TLA+ strings.  The terminal launcher string is split by the  *)
(* code, so it is modelled as its sequence of characters.  Option<T> is    *)
(* the empty sequence (None) or a one-element sequence (Some(v)).          *)
(***************************************************************************)
EXTENDS Integers, Sequences, FiniteSets, TLC

VARIABLES
    context,       \* env.context: Option<context name>
    cfg_terminal,  \* env.click_config.terminal: Option<launcher string>
    selection,     \* the objects apply_to_selection iterates over
    matches,       \* the parsed arguments of this call
    pc,            \* where the handler is: start, dispatch, wait, done
    it_arg,        \* the attach token computed at lines 199-204
    idx,           \* index of the next object of the selection
    launches,      \* every process launch attempted so far, in order
    results,       \* the callback's result for each object processed so far
    out,           \* what was written to the ClickWriter, in order
    ret            \* the handler's return value, once pc = "done"

vars == <<context, cfg_terminal, selection, matches, pc, it_arg, idx,
          launches, results, out, ret>>

-----------------------------------------------------------------------------
(* Bounds of the model *)

MaxSel == 2
MaxCmd == 2
MaxTermLen == 1

-----------------------------------------------------------------------------
(* Option<T> *)

None == <<>>
Some(v) == <<v>>

(* Sequences over S of length at most n *)
SeqUpTo(S, n) == UNION {[1..k -> S] : k \in 0..n}

-----------------------------------------------------------------------------
(* Input domains *)

\* KObj: name(), namespace, is_pod().  A pod always carries a namespace.
\* The objects of the last listing, in the order they were listed.
Objects ==
    << [name |-> "p1", namespace |-> "ns1", pod |-> TRUE],
       [name |-> "node1", namespace |-> "", pod |-> FALSE],
       [name |-> "p2", namespace |-> "ns2", pod |-> TRUE] >>

\* A selection is some of the listed objects, in listing order.
Selections ==
    { [i \in 1..Len(p) |-> Objects[p[i]]] :
        p \in {q \in SeqUpTo(1..Len(Objects), MaxSel) :
                  \A i \in 1..(Len(q) - 1) : q[i] < q[i + 1]} }

ContextNames == {"prod"}
ContainerNames == {"c1"}
Words == {"ls", "-la"}

\* "command" is required(true): at least one word.
Commands == SeqUpTo(Words, MaxCmd) \ {<<>>}

\* Characters a launcher string is made of; " " is whitespace.
Chars == {" ", "x"}
Whitespace == {" "}
TermStrings == SeqUpTo(Chars, MaxTermLen)
\* click_config.terminal, when set: empty, or two words with doubled blanks.
ConfigTermStrings == { <<>>, <<"x", " ", " ", "x">> }

\* A flag with takes_value(true).min_values(0), validated by valid_bool:
\* absent, present with no value, or present with "true" or "false".
BoolFlags ==
    { [present |-> FALSE, value |-> None],
      [present |-> TRUE, value |-> None],
      [present |-> TRUE, value |-> Some("true")],
      [present |-> TRUE, value |-> Some("false")] }

\* --terminal: absent, present with no value, or present with a value.
TerminalFlags ==
    { [present |-> FALSE, value |-> None], [present |-> TRUE, value |-> None] }
    \cup { [present |-> TRUE, value |-> Some(t)] : t \in TermStrings }

Matches ==
    [ command : Commands,
      container : {None} \cup {Some(c) : c \in ContainerNames},
      terminal : TerminalFlags,
      tty : BoolFlags,
      stdin : BoolFlags ]

\* std::io::ErrorKind of a failed launch: NotFound, or any other kind.
IoErrorKinds == {"NotFound", "PermissionDenied"}

-----------------------------------------------------------------------------
(* ClickError and the callback's results *)

Ok == [ok |-> TRUE]
CommandError(msg) == [ok |-> FALSE, kind |-> "CommandError", msg |-> msg]
Io(e) == [ok |-> FALSE, kind |-> "Io", err |-> e]

-----------------------------------------------------------------------------
(* Flag Resolver: lines 179-204 of the handler closure *)

\* str::parse::<bool>() on a value valid_bool accepted: "true" or "false".
ParseBool(v) == v = "true"

\* A default-false resolver: what kubectl itself does with an absent flag.
FlagValue_DefaultFalse(flag) ==
    IF flag.present
    THEN IF flag.value # None THEN ParseBool(flag.value[1]) ELSE TRUE
    ELSE FALSE

\* if matches.is_present(f) { if let Some(v) = matches.value_of(f)
\*   { v.parse::<bool>().unwrap() } else { true } } else { true }
FlagValue(flag) ==
    IF flag.present
    THEN IF flag.value # None THEN ParseBool(flag.value[1]) ELSE TRUE
    ELSE TRUE

\* match (tty, stdin) { ... }
AttachToken(tty, stdin) ==
    CASE tty /\ stdin -> "-it"
      [] tty /\ ~stdin -> "-t"
      [] ~tty /\ stdin -> "-i"
      [] ~tty /\ ~stdin -> ""

-----------------------------------------------------------------------------
(* Invocation Builder: do_exec, lines 51-95 *)

\* str::split_whitespace: the maximal runs of non-whitespace characters, in
\* order; no empty word is ever produced.
RECURSIVE SplitFrom(_, _, _, _)
SplitFrom(s, i, cur, acc) ==
    IF i > Len(s)
    THEN IF cur = "" THEN acc ELSE Append(acc, cur)
    ELSE IF s[i] \in Whitespace
         THEN SplitFrom(s, i + 1, "", IF cur = "" THEN acc ELSE Append(acc, cur))
         ELSE SplitFrom(s, i + 1, cur \o s[i], acc)

SplitWhitespace(s) == SplitFrom(s, 1, "", <<>>)

\* The fixed default launcher, "xterm -e", as its characters.
DefaultTerminal == <<"x", "t", "e", "r", "m", " ", "-", "e">>

\* lines 53-59: --terminal's value, else click_config.terminal, else "xterm -e"
Terminal(term_opt, config_terminal) ==
    IF term_opt # None THEN term_opt[1]
    ELSE IF config_terminal # None THEN config_terminal[1]
    ELSE DefaultTerminal

\* lines 61-70: the kubectl_args vector
KubectlArgs(ns, kluster_name, it, podname) ==
    <<"kubectl", "--namespace", ns, "--context", kluster_name, "exec", it, podname>>

\* A terminal builder that pushes the container after the "--" separator.
Targs_ContainerLast(terminal, ns, kluster_name, it, podname, cont_opt, cmd) ==
    SplitWhitespace(terminal)
        \o KubectlArgs(ns, kluster_name, it, podname)
        \o <<"--">>
        \o (IF cont_opt # None THEN <<"-c", cont_opt[1]>> ELSE <<>>)
        \o cmd

\* lines 60-77: targs once every push is done
Targs(terminal, ns, kluster_name, it, podname, cont_opt, cmd) ==
    SplitWhitespace(terminal)
        \o KubectlArgs(ns, kluster_name, it, podname)
        \o (IF cont_opt # None THEN <<"-c", cont_opt[1]>> ELSE <<>>)
        \o <<"--">>
        \o cmd

\* A terminal launch that always runs the wrapped binary itself.
DuctProgram_Kubectl(targs) == "kubectl"

\* line 79: duct::cmd(targs[0], &targs[1..])
DuctProgram(targs) == targs[1]
DuctArgs(targs) == SubSeq(targs, 2, Len(targs))

Reverse(s) == [i \in 1..Len(s) |-> s[Len(s) + 1 - i]]

\* An inline builder that hands the command words over in reverse.
InlineArgs_Reversed(ns, kluster_name, it, podname, cont_opt, cmd) ==
    <<"--namespace", ns, "--context", kluster_name, "exec", it, podname>>
        \o (IF cont_opt # None THEN <<"-c", cont_opt[1]>> ELSE <<>>)
        \o <<"--">>
        \o Reverse(cmd)

\* lines 82-95: Command::new("kubectl") and the arguments given to it
InlineProgram == "kubectl"
InlineArgs(ns, kluster_name, it, podname, cont_opt, cmd) ==
    <<"--namespace", ns, "--context", kluster_name, "exec", it, podname>>
        \o (IF cont_opt # None THEN <<"-c", cont_opt[1]>> ELSE <<>>)
        \o <<"--">>
        \o cmd

-----------------------------------------------------------------------------
(* Error Classifier *)

\* An inline classifier that reports every launch failure as an I/O error.
LaunchError_AlwaysIo(e) == Io(e)

\* lines 106-114: the Err(e) arm of command.status()
LaunchError(e) ==
    IF e = "NotFound"
    THEN CommandError("Could not find kubectl binary. Is it in your PATH?")
    ELSE Io(e)

\* lines 97-105: the Ok(s) arm of command.status()
ExitResult(success) ==
    IF success THEN Ok ELSE CommandError("kubectl exited abnormally")

\* A start that reports the detached process as if it had already failed.
StartOk_Abnormal == CommandError("kubectl exited abnormally")

\* lines 79-80: start() succeeded, so Ok(()), whatever the process does later
StartOk == Ok

\* line 79: start()? failed; `?` turns the io::Error into ClickError::Io
StartError(e) == Io(e)

-----------------------------------------------------------------------------
(* State after construction: the environment and the parsed arguments are  *)
(* given; nothing has run yet.                                             *)

Init ==
    /\ context \in {None} \cup {Some(c) : c \in ContextNames}
    /\ cfg_terminal \in {None} \cup {Some(t) : t \in ConfigTermStrings}
    /\ selection \in Selections
    /\ matches \in Matches
    /\ pc = "start"
    /\ it_arg = ""
    /\ idx = 1
    /\ launches = <<>>
    /\ results = <<>>
    /\ out = <<>>
    /\ ret = None

-----------------------------------------------------------------------------
(* Selection Dispatcher: env.apply_to_selection, which lives outside       *)
(* exec.rs.  It calls the callback on every object in order, writes the    *)
(* separator between objects, and records each result without stopping.    *)

Separator == [kind |-> "separator"]
StatusLine(name) == [kind |-> "status", on |-> name]

\* the writer as the callback for object k finds it
OutBefore(k) == IF k > 1 THEN Append(out, Separator) ELSE out

\* the callback for the current object returned r: go on with the next one
Record(r) ==
    /\ results' = Append(results, r)
    /\ idx' = idx + 1

\* every object was handed to the callback
Finish ==
    /\ pc = "dispatch"
    /\ idx > Len(selection)
    /\ pc' = "done"
    /\ ret' = Some([ok |-> TRUE, results |-> results])
    /\ UNCHANGED <<context, cfg_terminal, selection, matches, it_arg, idx,
                   launches, results, out>>

-----------------------------------------------------------------------------
(* The handler closure, lines 176-233 *)

\* A lookup that falls back to a default context when none is active.
ActiveContext_Default == IF context = None THEN Some("default") ELSE context

\* line 178: env.context.as_ref()
ActiveContext == context

\* lines 177-204 and 228-232: up to the call of apply_to_selection
ExecHandler ==
    /\ pc = "start"
    /\ IF ActiveContext # None
       THEN /\ it_arg' = AttachToken(FlagValue(matches.tty), FlagValue(matches.stdin))
            /\ pc' = "dispatch"
            /\ ret' = ret
       ELSE /\ ret' = Some(CommandError("Need an active context in order to exec."))
            /\ pc' = "done"
            /\ it_arg' = it_arg
    /\ UNCHANGED <<context, cfg_terminal, selection, matches, idx, launches,
                   results, out>>

\* A gate that lets every object through to do_exec.
IsPod_Always(obj) == TRUE

\* line 209: obj.is_pod()
IsPod(obj) == obj.pod

\* lines 221-225: the callback on an object that is not a pod
CallbackNotPod ==
    /\ pc = "dispatch"
    /\ idx <= Len(selection)
    /\ ~IsPod(selection[idx])
    /\ Record(CommandError("Exec only possible on pods"))
    /\ out' = OutBefore(idx)
    /\ UNCHANGED <<context, cfg_terminal, selection, matches, pc, it_arg,
                   launches, ret>>

\* lines 52-80: do_exec with do_terminal; the start either succeeds or fails
\* with an io::Error of some kind
ExecTerminal ==
    /\ pc = "dispatch"
    /\ idx <= Len(selection)
    /\ IsPod(selection[idx])
    /\ matches.terminal.present
    /\ LET pod == selection[idx]
           targs == Targs(Terminal(matches.terminal.value, cfg_terminal),
                          pod.namespace, ActiveContext[1], it_arg, pod.name,
                          matches.container, matches.command)
           argv == <<DuctProgram(targs)>> \o DuctArgs(targs)
       IN \/ /\ launches' = Append(launches,
                    [obj |-> idx, argv |-> argv, detached |-> TRUE,
                     state |-> "running"])
             /\ Record(StartOk)
          \/ \E e \in IoErrorKinds :
                /\ launches' = Append(launches,
                       [obj |-> idx, argv |-> argv, detached |-> TRUE,
                        state |-> e])
                /\ Record(StartError(e))
    /\ out' = Append(OutBefore(idx), StatusLine(selection[idx].name))
    /\ UNCHANGED <<context, cfg_terminal, selection, matches, pc, it_arg, ret>>

\* lines 82-96: do_exec without do_terminal, up to the child being spawned
\* by command.status(), or failing to
ExecInline ==
    /\ pc = "dispatch"
    /\ idx <= Len(selection)
    /\ IsPod(selection[idx])
    /\ ~matches.terminal.present
    /\ LET pod == selection[idx]
           argv == <<InlineProgram>> \o
                   InlineArgs(pod.namespace, ActiveContext[1], it_arg, pod.name,
                              matches.container, matches.command)
       IN \/ /\ launches' = Append(launches,
                    [obj |-> idx, argv |-> argv, detached |-> FALSE,
                     state |-> "running"])
             /\ pc' = "wait"
             /\ UNCHANGED <<results, idx>>
          \/ \E e \in IoErrorKinds :
                /\ launches' = Append(launches,
                       [obj |-> idx, argv |-> argv, detached |-> FALSE,
                        state |-> e])
                /\ Record(LaunchError(e))
                /\ pc' = pc
    /\ out' = OutBefore(idx)
    /\ UNCHANGED <<context, cfg_terminal, selection, matches, it_arg, ret>>

\* lines 96-105: command.status() returns once the child has exited
InlineExit ==
    /\ pc = "wait"
    /\ \E success \in BOOLEAN :
         /\ launches' = [launches EXCEPT ![Len(launches)].state =
                            IF success THEN "exit_ok" ELSE "exit_fail"]
         /\ Record(ExitResult(success))
    /\ pc' = "dispatch"
    /\ UNCHANGED <<context, cfg_terminal, selection, matches, it_arg, out, ret>>

\* A process started in a terminal exits whenever it does; nobody waits.
DetachedExit ==
    /\ \E i \in 1..Len(launches), success \in BOOLEAN :
         /\ launches[i].detached
         /\ launches[i].state = "running"
         /\ launches' = [launches EXCEPT ![i].state =
                            IF success THEN "exit_ok" ELSE "exit_fail"]
    /\ UNCHANGED <<context, cfg_terminal, selection, matches, pc, it_arg, idx,
                   results, out, ret>>

Next ==
    \/ ExecHandler
    \/ CallbackNotPod
    \/ ExecTerminal
    \/ ExecInline
    \/ InlineExit
    \/ DetachedExit
    \/ Finish

Spec == Init /\ [][Next]_vars

-----------------------------------------------------------------------------
(* Properties *)

LaunchIdx == 1..Len(launches)
Target(l) == selection[l.obj]
ContainerArgs == IF matches.container # None THEN <<"-c", matches.container[1]>> ELSE <<>>

Absent == [present |-> FALSE, value |-> None]
NoValue == [present |-> TRUE, value |-> None]
Explicit(v) == [present |-> TRUE, value |-> Some(v)]

\* The effective boolean of a flag, as the resolver's contract tabulates it.
Effective(f) ==
    CASE f = Absent -> TRUE
      [] f = NoValue -> TRUE
      [] f = Explicit("true") -> TRUE
      [] f = Explicit("false") -> FALSE

\* C1: once the handler has resolved the flags, the attach token is the one
\* the table gives for the effective tty and stdin values: absent and
\* valueless flags count as true, an explicit value counts as itself, and
\* (T,T) -> "-it", (T,F) -> "-t", (F,T) -> "-i", (F,F) -> "".
C1_AttachTokenTable ==
    (pc # "start" /\ context # None) =>
        LET t == Effective(matches.tty)
            i == Effective(matches.stdin)
        IN /\ (t /\ i) => it_arg = "-it"
           /\ (t /\ ~i) => it_arg = "-t"
           /\ (~t /\ i) => it_arg = "-i"
           /\ (~t /\ ~i) => it_arg = ""

\* C1 witness: both flags absent, and the token is "-it".
C1_Witness ==
    /\ pc = "dispatch"
    /\ matches.tty = Absent
    /\ matches.stdin = Absent
    /\ it_arg = "-it"

\* C2: with a non-empty attach token, every inline invocation is exactly
\* kubectl --namespace <ns> --context <context> exec <token> <pod>
\* [-c <container>] -- <command words in the given order>.
C2_InlineInvocation ==
    \A n \in LaunchIdx :
        (~launches[n].detached /\ it_arg # "") =>
            launches[n].argv =
                <<"kubectl", "--namespace", Target(launches[n]).namespace,
                  "--context", context[1], "exec", it_arg,
                  Target(launches[n]).name>>
                \o ContainerArgs \o <<"--">> \o matches.command

\* C2 witness: the example of the specification, [ls, -la] on a pod of ns1
\* in context prod with no container and the default attach mode.
C2_Witness ==
    \E n \in LaunchIdx :
        /\ ~launches[n].detached
        /\ matches.command = <<"ls", "-la">>
        /\ matches.container = None
        /\ matches.tty = Absent /\ matches.stdin = Absent
        /\ launches[n].argv =
               <<"kubectl", "--namespace", "ns1", "--context", "prod", "exec",
                 "-it", "p1", "--", "ls", "-la">>

\* C3: with an empty attach token no invocation holds an element for it: no
\* argument is the empty string and the object name directly follows "exec".
C3_EmptyTokenOmitted ==
    \A n \in LaunchIdx :
        it_arg = "" =>
            \A j \in 1..Len(launches[n].argv) :
                /\ launches[n].argv[j] # ""
                /\ launches[n].argv[j] = "exec" =>
                       (j < Len(launches[n].argv)
                        /\ launches[n].argv[j + 1] = Target(launches[n]).name)

\* The launcher string the --terminal help text promises.
Launcher ==
    IF matches.terminal.value # None THEN matches.terminal.value[1]
    ELSE IF cfg_terminal # None THEN cfg_terminal[1]
    ELSE <<"x", "t", "e", "r", "m", " ", "-", "e">>

\* C4: every terminal invocation is the whitespace-split words of the
\* launcher string (--terminal's value, else the configured default, else
\* "xterm -e") followed by the complete inline invocation for the same pod,
\* context, token, container and command words.
C4_TerminalIsLauncherPlusInline ==
    \A n \in LaunchIdx :
        launches[n].detached =>
            launches[n].argv =
                SplitWhitespace(Launcher)
                \o <<InlineProgram>>
                \o InlineArgs(Target(launches[n]).namespace, context[1], it_arg,
                              Target(launches[n]).name, matches.container,
                              matches.command)

\* C4 witness: --terminal without a value and no configured default, with a
\* container: xterm -e kubectl ... <pod> -c c1 -- <command>.
C4_Witness ==
    \E n \in LaunchIdx :
        /\ launches[n].detached
        /\ matches.terminal = NoValue
        /\ cfg_terminal = None
        /\ matches.container = Some("c1")
        /\ matches.command = <<"ls", "-la">>
        /\ it_arg = "-t"
        /\ launches[n].argv =
               <<"xterm", "-e", "kubectl", "--namespace", "ns2", "--context",
                 "prod", "exec", "-t", "p2", "-c", "c1", "--", "ls", "-la">>

NotFoundMsg == "Could not find kubectl binary. Is it in your PATH?"
AbnormalMsg == "kubectl exited abnormally"
LaunchStates == {"running", "exit_ok", "exit_fail"} \cup IoErrorKinds

\* C5: an inline do_exec returns only once its child has exited (while the
\* child runs the handler waits and the object has no result yet), and its
\* result follows the child's outcome: success -> Ok; non-success ->
\* CommandError "kubectl exited abnormally" with no exit code; launch failed
\* with NotFound -> CommandError "Could not find kubectl binary. Is it in
\* your PATH?"; any other launch failure -> Io wrapping the error.  No object
\* is launched twice.
C5_InlineOutcome ==
    /\ \A n \in LaunchIdx :
         ~launches[n].detached =>
            LET k == launches[n].obj
                st == launches[n].state
            IN /\ st \in LaunchStates
               /\ st = "running" =>
                     (pc = "wait" /\ n = Len(launches) /\ idx = k
                      /\ Len(results) = k - 1)
               /\ st # "running" => Len(results) >= k
               /\ st = "exit_ok" => results[k] = [ok |-> TRUE]
               /\ st = "exit_fail" =>
                     results[k] = [ok |-> FALSE, kind |-> "CommandError",
                                   msg |-> AbnormalMsg]
               /\ st = "NotFound" =>
                     results[k] = [ok |-> FALSE, kind |-> "CommandError",
                                   msg |-> NotFoundMsg]
               /\ (st \in IoErrorKinds /\ st # "NotFound") =>
                     results[k] = [ok |-> FALSE, kind |-> "Io", err |-> st]
    /\ \A m, n \in LaunchIdx : m # n => launches[m].obj # launches[n].obj

\* C5 witness: two pods run inline; kubectl is not found for the first and
\* exits abnormally for the second.
C5_Witness ==
    /\ Len(launches) = 2
    /\ ~launches[1].detached /\ launches[1].state = "NotFound"
    /\ ~launches[2].detached /\ launches[2].state = "exit_fail"
    /\ Len(results) = 2
    /\ results[1].msg = NotFoundMsg
    /\ results[2].msg = AbnormalMsg

\* C6: once a terminal process has been started the object's result is Ok,
\* and stays Ok whether the process is still running, has exited with
\* success or has exited without.
C6_TerminalOkOnStart ==
    \A n \in LaunchIdx :
        (launches[n].detached
         /\ launches[n].state \in {"running", "exit_ok", "exit_fail"}) =>
            /\ Len(results) >= launches[n].obj
            /\ results[launches[n].obj] = [ok |-> TRUE]

\* C6 witness: the first terminal process is still running when the second
\* object has been processed, and the second process has already failed;
\* both results are Ok.
C6_Witness ==
    /\ Len(launches) = 2
    /\ launches[1].detached /\ launches[1].state = "running"
    /\ launches[2].detached /\ launches[2].state = "exit_fail"
    /\ launches[1].obj = 1 /\ launches[2].obj = 2
    /\ results = <<[ok |-> TRUE], [ok |-> TRUE]>>

\* C7: under either strategy a launch that fails because the program is not
\* found is reported as CommandError "Could not find kubectl binary. Is it
\* in your PATH?".
C7_NotFoundIsBinaryMissing ==
    \A n \in LaunchIdx :
        launches[n].state = "NotFound" =>
            /\ Len(results) >= launches[n].obj
            /\ results[launches[n].obj] =
                   [ok |-> FALSE, kind |-> "CommandError", msg |-> NotFoundMsg]

\* C8: without an active context nothing is dispatched: no process is
\* launched, nothing is written, no object gets a result, and the handler
\* returns CommandError "Need an active context in order to exec.".
C8_NoContextShortCircuits ==
    context = None =>
        /\ launches = <<>>
        /\ out = <<>>
        /\ results = <<>>
        /\ pc \in {"start", "done"}
        /\ pc = "done" =>
              ret = <<[ok |-> FALSE, kind |-> "CommandError",
                       msg |-> "Need an active context in order to exec."]>>

\* C8 witness: no context, a selection of a non-pod and a pod, --terminal
\* given, and the handler has returned.
C8_Witness ==
    /\ context = None
    /\ pc = "done"
    /\ Len(selection) = 2
    /\ ~selection[1].pod /\ selection[2].pod
    /\ matches.terminal.present
    /\ ret # None

\* C9: with an active context the objects are processed in selection order,
\* one at a time; a non-pod gets "Exec only possible on pods" and no launch,
\* a pod gets exactly one launch whatever happened to the objects before it,
\* and when the handler returns every object has a result.
C9_AllObjectsInOrder ==
    context # None =>
        /\ \A m, n \in LaunchIdx : m < n => launches[m].obj < launches[n].obj
        /\ \A n \in LaunchIdx :
              /\ launches[n].obj \in 1..Len(selection)
              /\ selection[launches[n].obj].pod
              /\ launches[n].obj <= Len(results) + 1
        /\ Len(results) <= Len(selection)
        /\ \A k \in 1..Len(results) :
              IF selection[k].pod
              THEN \E n \in LaunchIdx : launches[n].obj = k
              ELSE results[k] = [ok |-> FALSE, kind |-> "CommandError",
                                 msg |-> "Exec only possible on pods"]
        /\ pc = "done" => Len(results) = Len(selection)

\* C9 witness: the first object is not a pod, the second is a pod whose
\* kubectl ran and succeeded, and the handler has returned.
C9_Witness ==
    /\ context # None
    /\ pc = "done"
    /\ Len(selection) = 2
    /\ ~selection[1].pod
    /\ results[1].ok = FALSE
    /\ results[2] = [ok |-> TRUE]
    /\ Len(launches) = 1
    /\ launches[1].obj = 2 /\ launches[1].state = "exit_ok"

\* C10 as claimed: for every launcher string, empty and whitespace-only ones
\* included, the program a terminal launch runs is never "kubectl".
C10_ProgramNeverKubectl ==
    \A n \in LaunchIdx :
        launches[n].detached => launches[n].argv[1] # "kubectl"

HasWord(s) == \E j \in 1..Len(s) : s[j] \notin Whitespace

\* C10 amended: when the launcher string holds at least one word, the program
\* a terminal launch runs is the launcher's first word and "kubectl" comes
\* right after the launcher's words; when the launcher string is empty or
\* whitespace-only, the program is "kubectl" itself.
C10_ProgramIsFirstLauncherWord ==
    \A n \in LaunchIdx :
        launches[n].detached =>
            LET argv == launches[n].argv
                words == SplitWhitespace(Launcher)
            IN IF HasWord(Launcher)
               THEN /\ words # <<>>
                    /\ argv[1] = words[1]
                    /\ argv[1] # "kubectl"
                    /\ argv[Len(words) + 1] = "kubectl"
               ELSE argv[1] = "kubectl"

\* C10 witness: --terminal x starts the program x, with kubectl as its first
\* argument.
C10_Witness ==
    \E n \in LaunchIdx :
        /\ launches[n].detached
        /\ matches.terminal = Explicit(<<"x">>)
        /\ launches[n].argv[1] = "x"
        /\ launches[n].argv[2] = "kubectl"

====
